---- MODULE Spec2Model ----
(***************************************************************************)
(* Model of the monorepo scaffolding script (src/main.py): the command     *)
(* line entry point main(), the MonorepoSetup object and its setup()       *)
(* pipeline of file emissions and external commands.                       *)
(*                                                                         *)
(* Strings are sequences of one-character strings.  A pathlib.Path is a    *)
(* record [anchor, parts]: anchor "/" for an absolute path, "" for a       *)
(* relative one, parts the sequence of components.  The filesystem below   *)
(* project_path is a function from relative paths (sequences of component  *)
(* names) to "absent", "dir" or the content of a regular file.             *)
(***************************************************************************)
EXTENDS Integers, Sequences, FiniteSets, TLC

VARIABLES
    pc,            \* position of the process: main, init, setup_base, setup_check, structure, pipeline, exit
    ip,            \* index of the next step of Pipeline (while pc = "pipeline")
    argv_name,     \* args.project_name
    argv_base,     \* args.base_path (optional)
    env_base,      \* os.environ MONOREPO_BASE_PATH (optional)
    project_name,  \* self.project_name
    base_path,     \* self.base_path
    project_path,  \* self.project_path
    base_exists,   \* whether the directory base_path exists
    fs,            \* filesystem at and below project_path
    response,      \* outcome of the input() call of setup()
    attempted,     \* external commands spawned so far, with their exit status
    emitted,       \* relative paths passed to create_file so far
    exit_code,     \* process exit status, NotExited while running
    outcome,       \* how the process ended
    fs0,           \* history: fs at process start
    base0,         \* history: base_exists at process start
    missing,       \* executables that are not on the PATH
    stdin_sent,    \* what setup_frontend wrote to the generator's standard input
    tsconfig,      \* parsed content of frontend/tsconfig.json, when that file exists
    retry,         \* session.py: one call of a function wrapped by retry_db_operation
    session        \* session.py: one `with BaseSession()` block

vars == <<pc, ip, argv_name, argv_base, env_base, project_name, base_path,
          project_path, base_exists, fs, response, attempted, emitted,
          exit_code, outcome, fs0, base0, missing, stdin_sent, tsconfig,
          retry, session>>

----------------------------------------------------------------------------
(* Bounds *)

MaxNameLen == 2

----------------------------------------------------------------------------
(* Strings *)

\* letter, digit, hyphen, underscore, space, slash
Chars == {"a", "7", "-", "_", " ", "/"}

AlnumChars == {"a", "7"}

Names == UNION {[1..n -> Chars] : n \in 0..MaxNameLen}

\* str.replace(ch, "")
Replace(s, ch) == SelectSeq(s, LAMBDA c : c # ch)

\* str.isalnum(): non-empty and every character alphanumeric
IsAlnum(s) == Len(s) > 0 /\ \A i \in 1..Len(s) : s[i] \in AlnumChars

LowerChar(c) == CASE c = "Y" -> "y" [] c = "N" -> "n" [] OTHER -> c

\* str.lower()
Lower(s) == [i \in 1..Len(s) |-> LowerChar(s[i])]

\* an optional string: Python None or a str
None == [given |-> FALSE, val |-> <<>>]

Some(s) == [given |-> TRUE, val |-> s]

\* Python truthiness of an optional string
Truthy(opt) == opt.given /\ Len(opt.val) > 0

----------------------------------------------------------------------------
(* pathlib *)

RECURSIVE Split(_, _, _)
\* components of s between slashes, empty components dropped
Split(s, i, cur) ==
    IF i > Len(s)
    THEN (IF cur = <<>> THEN <<>> ELSE <<cur>>)
    ELSE IF s[i] = "/"
         THEN (IF cur = <<>> THEN <<>> ELSE <<cur>>) \o Split(s, i + 1, <<>>)
         ELSE Split(s, i + 1, Append(cur, s[i]))

\* Path(s)
PathOf(s) ==
    [anchor |-> IF Len(s) > 0 /\ s[1] = "/" THEN "/" ELSE "",
     parts  |-> Split(s, 1, <<>>)]

\* variant: the left operand is dropped
PathJoinDropsBase(p, s) == PathOf(s)

\* p / s : an absolute right operand replaces the left one
PathJoin(p, s) ==
    LET q == PathOf(s)
    IN  IF q.anchor = "/" THEN q
        ELSE [anchor |-> p.anchor, parts |-> p.parts \o q.parts]

\* Path.home()
HomePath == [anchor |-> "/", parts |-> << <<"h", "o", "m", "e">> >>]

ProjectsDir == <<"P", "r", "o", "j", "e", "c", "t", "s">>

NoPath == [anchor |-> "unset", parts |-> <<>>]

ArgBasePaths == {None, Some(<<>>), Some(<<"/", "x">>)}

EnvBasePaths == {None, Some(<<>>), Some(<<"/", "e">>)}

\* variant: the environment variable is consulted before the explicit argument
ResolveBasePathEnvFirst(explicit, env) ==
    IF Truthy(env) THEN PathOf(env.val)
    ELSE IF Truthy(explicit) THEN PathOf(explicit.val)
    ELSE [anchor |-> "/", parts |-> << <<"h", "o", "m", "e">>, ProjectsDir >>]

\* MonorepoSetup.__init__: the base path
ResolveBasePath(explicit, env) ==
    IF Truthy(explicit) THEN PathOf(explicit.val)
    ELSE IF Truthy(env) THEN PathOf(env.val)
    ELSE PathJoin(HomePath, ProjectsDir)

\* main(): the project-name validation, TRUE when the name is accepted
ValidName(name) == IsAlnum(Replace(Replace(name, "-"), "_"))

----------------------------------------------------------------------------
(* Filesystem below project_path *)

Parent(p) == SubSeq(p, 1, Len(p) - 1)

Prefixes(p) == {SubSeq(p, 1, k) : k \in 0..Len(p)}

IsPrefix(p, q) == Len(p) <= Len(q) /\ SubSeq(q, 1, Len(p)) = p

Root == <<>>

BackendDir == <<"backend">>

FrontendDir == <<"frontend">>

AppDir == <<"backend", "src", "app">>

CoreDir == <<"backend", "src", "app", "core">>

DbDir == <<"backend", "src", "app", "database">>

ModelsDir == <<"backend", "src", "app", "database", "models">>

AlembicEnv == <<"backend", "src", "app", "database", "alembic", "env.py">>

TsconfigPath == <<"frontend", "tsconfig.json">>

\* the root layout file of the generated Next.js application
LayoutPath == <<"frontend", "src", "app", "layout.tsx">>

\* files found in a project directory left by an earlier run
OldFiles == {<<"old.txt">>, <<"frontend", "stale.txt">>, <<"backend", "pyproject.toml">>}

----------------------------------------------------------------------------
(* The pipeline of setup(), after create_project_structure() *)

CreateStep(path, content) ==
    [op |-> "create", cmd |-> "", path |-> path, content |-> content, check |-> TRUE]

RunStep(cmd, cwd, check) ==
    [op |-> "run", cmd |-> cmd, path |-> cwd, content |-> "", check |-> check]

RemoveStep(path) ==
    [op |-> "remove", cmd |-> "", path |-> path, content |-> "", check |-> TRUE]

MkdirStep(path) ==
    [op |-> "mkdir", cmd |-> "", path |-> path, content |-> "", check |-> TRUE]

PopenStep(cmd, cwd) ==
    [op |-> "popen", cmd |-> cmd, path |-> cwd, content |-> "", check |-> TRUE]

PatchStep(path) ==
    [op |-> "patch", cmd |-> "", path |-> path, content |-> "", check |-> TRUE]

\* variant: git init is tried a second time
SetupHeadRetriesGit ==
    << CreateStep(<<".gitignore">>, "gitignore_content"),
       RunStep("git init", Root, FALSE),
       RunStep("git init", Root, FALSE),
       CreateStep(<<".vscode", "settings.json">>, "vscode_settings") >>

\* setup(), lines 90-96: create_gitignore, git init, create_vscode_settings
SetupHead ==
    << CreateStep(<<".gitignore">>, "gitignore_content"),
       RunStep("git init", Root, FALSE),
       CreateStep(<<".vscode", "settings.json">>, "vscode_settings") >>

SetupBackend ==
    << RunStep("uv init .", BackendDir, TRUE),
       RemoveStep(<<"backend", ".gitignore">>),
       RemoveStep(<<"backend", "hello.py">>),
       RemoveStep(<<"backend", "main.py">>),
       RunStep("uv venv", BackendDir, TRUE),
       MkdirStep(AppDir),
       CreateStep(<<"backend", "src", "app", "__init__.py">>, ""),
       CreateStep(<<"backend", "src", "app", "main.py">>, "main_py_content"),
       CreateStep(<<"backend", "pyproject.toml">>, "pyproject_content"),
       CreateStep(<<"backend", "README.md">>, "backend_readme"),
       RunStep("uv add --editable . --dev", BackendDir, TRUE),
       RunStep("uv add --dev ruff", BackendDir, TRUE),
       RunStep("uv sync --dev", BackendDir, TRUE),
       RunStep("uv add fastapi ...", BackendDir, TRUE),
       RunStep("uv sync --dev", BackendDir, TRUE),
       MkdirStep(CoreDir),
       CreateStep(<<"backend", "src", "app", "core", "__init__.py">>, ""),
       CreateStep(<<"backend", "src", "app", "core", "config.py">>, "core_config"),
       CreateStep(<<"backend", ".env.example">>, "env_example"),
       MkdirStep(ModelsDir),
       CreateStep(<<"backend", "src", "app", "database", "__init__.py">>, ""),
       CreateStep(<<"backend", "src", "app", "database", "models", "__init__.py">>,
                  "models_init"),
       CreateStep(<<"backend", "src", "app", "database", "models", "base.py">>,
                  "base_model"),
       CreateStep(<<"backend", "src", "app", "database", "session.py">>, "session_py"),
       CreateStep(<<"backend", "src", "app", "database", "README.md">>, "db_readme"),
       RunStep("alembic init alembic", DbDir, TRUE),
       CreateStep(AlembicEnv, "alembic_env") >>

\* variant: the root ignore-file is removed instead of the generator's
SetupFrontendRemovesRootIgnore ==
    << PopenStep("npx create-next-app@latest .", FrontendDir),
       RemoveStep(<<".gitignore">>),
       RunStep("npm install axios", FrontendDir, TRUE),
       RunStep("npm install -D ...", FrontendDir, TRUE),
       CreateStep(<<"frontend", ".prettierrc">>, "prettier_config"),
       CreateStep(<<"frontend", ".eslintrc.json">>, "eslint_config"),
       PatchStep(TsconfigPath) >>

\* variant: the formatter configuration is written before the generator runs
SetupFrontendConfigFirst ==
    << CreateStep(<<"frontend", ".prettierrc">>, "prettier_config"),
       PopenStep("npx create-next-app@latest .", FrontendDir),
       RemoveStep(<<"frontend", ".gitignore">>),
       RunStep("npm install axios", FrontendDir, TRUE),
       RunStep("npm install -D ...", FrontendDir, TRUE),
       CreateStep(<<"frontend", ".eslintrc.json">>, "eslint_config"),
       PatchStep(TsconfigPath) >>

SetupFrontend ==
    << PopenStep("npx create-next-app@latest .", FrontendDir),
       RemoveStep(<<"frontend", ".gitignore">>),
       RunStep("npm install axios", FrontendDir, TRUE),
       RunStep("npm install -D ...", FrontendDir, TRUE),
       CreateStep(<<"frontend", ".prettierrc">>, "prettier_config"),
       CreateStep(<<"frontend", ".eslintrc.json">>, "eslint_config"),
       PatchStep(TsconfigPath) >>

\* setup(), line 99: create_readme
SetupTail == << CreateStep(<<"README.md">>, "readme_content") >>

\* variant: the root readme is written before the frontend is set up
\* variant: the migration environment file is written before alembic init runs
PipelineEnvBeforeAlembicInit ==
    SetupHead \o SubSeq(SetupBackend, 1, Len(SetupBackend) - 2)
              \o << SetupBackend[Len(SetupBackend)], SetupBackend[Len(SetupBackend) - 1] >>
              \o SetupFrontend \o SetupTail

\* variant: the first installation runs before the manifest is written
PipelineInstallBeforeManifest ==
    SetupHead \o SubSeq(SetupBackend, 1, 8) \o << SetupBackend[11] >>
              \o SubSeq(SetupBackend, 9, 10) \o SubSeq(SetupBackend, 12, Len(SetupBackend))
              \o SetupFrontend \o SetupTail

PipelineReadmeBeforeFrontend == SetupHead \o SetupBackend \o SetupTail \o SetupFrontend

Pipeline == SetupHead \o SetupBackend \o SetupFrontend \o SetupTail

\* what an external command leaves behind when it succeeds: directories and
\* files it always creates, and files it creates in some versions only
CmdOutputs(cmd) ==
    CASE cmd = "git init" ->
           [dirs |-> {<<".git">>}, always |-> {}, maybe |-> {}]
      [] cmd = "uv init ." ->
           [dirs |-> {}, always |-> {<<"backend", "pyproject.toml">>},
            maybe |-> {<<"backend", ".gitignore">>, <<"backend", "hello.py">>,
                       <<"backend", "main.py">>}]
      [] cmd = "uv venv" ->
           [dirs |-> {<<"backend", ".venv">>}, always |-> {}, maybe |-> {}]
      [] cmd = "alembic init alembic" ->
           [dirs |-> {}, always |-> {AlembicEnv}, maybe |-> {}]
      [] cmd = "npx create-next-app@latest ." ->
           [dirs |-> {}, always |-> {<<"frontend", "package.json">>, LayoutPath},
            maybe |-> {<<"frontend", ".gitignore">>, TsconfigPath}]
      [] OTHER ->
           [dirs |-> {}, always |-> {}, maybe |-> {}]

Commands == {Pipeline[i].cmd : i \in 1..Len(Pipeline)}

LeafPaths ==
    OldFiles \cup {Pipeline[i].path : i \in 1..Len(Pipeline)}
    \cup UNION {CmdOutputs(c).dirs \cup CmdOutputs(c).always \cup CmdOutputs(c).maybe
                : c \in Commands}

FsPaths == UNION {Prefixes(p) : p \in LeafPaths}

Exists(f, p) == f[p] # "absent"

IsFile(f, p) == f[p] \notin {"absent", "dir"}

EmptyFs == [p \in FsPaths |-> "absent"]

\* mkdir(parents=True, exist_ok=True) raises when a component is a regular file
MkdirRaises(f, p) == \E q \in Prefixes(p) : IsFile(f, q)

Mkdirs(f, p) == [q \in FsPaths |-> IF q \in Prefixes(p) THEN "dir" ELSE f[q]]

\* variant: only the directory entry itself is removed
RmTreeTopOnly(f, p) == [q \in FsPaths |-> IF q = p THEN "absent" ELSE f[q]]

\* shutil.rmtree(p) of a directory
RmTree(f, p) == [q \in FsPaths |-> IF IsPrefix(p, q) THEN "absent" ELSE f[q]]

\* create_file: parent.mkdir(parents=True, exist_ok=True), then open(path, "w")
CreateFileRaises(f, p) == MkdirRaises(f, Parent(p)) \/ f[p] = "dir"

\* variant: open(path, "x"), an existing file keeps its content
CreateFileKeepsExisting(f, p, content) ==
    IF MkdirRaises(f, Parent(p)) THEN f
    ELSE IF f[p] # "absent" THEN Mkdirs(f, Parent(p))
    ELSE [Mkdirs(f, Parent(p)) EXCEPT ![p] = content]

CreateFile(f, p, content) ==
    IF MkdirRaises(f, Parent(p)) THEN f
    ELSE IF f[p] = "dir" THEN Mkdirs(f, Parent(p))
    ELSE [Mkdirs(f, Parent(p)) EXCEPT ![p] = content]

\* remove_file: unlink() of a directory raises
RemoveFileRaises(f, p) == f[p] = "dir"

\* variant: the directory holding the file is removed with it
RemoveFileClearsDir(f, p) == IF IsFile(f, p) THEN RmTree(f, Parent(p)) ELSE f

\* variant: nothing is unlinked
RemoveFileKeeps(f, p) == f

RemoveFile(f, p) == IF IsFile(f, p) THEN [f EXCEPT ![p] = "absent"] ELSE f

RECURSIVE WriteAll(_, _, _)
\* the files ps written with the given content, parents created
WriteAll(f, ps, content) ==
    IF ps = {} THEN f
    ELSE LET p == CHOOSE x \in ps : TRUE
         IN  WriteAll(CreateFile(f, p, content), ps \ {p}, content)

RECURSIVE MkdirAll(_, _)
MkdirAll(f, ps) ==
    IF ps = {} THEN f
    ELSE LET p == CHOOSE x \in ps : TRUE
         IN  MkdirAll(Mkdirs(f, p), ps \ {p})

\* the sets of files a command may have written when it exits with status rc:
\* all of its outputs on success, any part of them on failure, none when the
\* shell did not find the executable
CmdFiles(cmd, rc) ==
    IF rc = 0
    THEN {CmdOutputs(cmd).always \cup opt : opt \in SUBSET CmdOutputs(cmd).maybe}
    ELSE IF rc = 127 THEN {{}}
    ELSE SUBSET (CmdOutputs(cmd).always \cup CmdOutputs(cmd).maybe)

\* filesystem after command cmd exited with status rc, having written files
CmdEffect(f, cmd, rc, files) ==
    WriteAll(IF rc = 0 THEN MkdirAll(f, CmdOutputs(cmd).dirs) ELSE f,
             files, "generated")

\* project directories an earlier run may have left
OldTree(files) == WriteAll(Mkdirs(EmptyFs, Root), files, "old")

InitialTrees ==
    {EmptyFs,
     OldTree({}),
     OldTree(OldFiles),
     [EmptyFs EXCEPT ![Root] = "old"]}

----------------------------------------------------------------------------
(* External commands and the terminal *)

\* exit statuses of an external command (127: command not found, -9: killed)
ReturnCodes == {0, 1, 127, -9}

NotExited == -1

\* the executable a command line starts
Executable(cmd) ==
    CASE cmd = "git init" -> "git"
      [] cmd \in {"uv init .", "uv venv", "uv add --editable . --dev",
                  "uv add --dev ruff", "uv sync --dev", "uv add fastapi ..."} -> "uv"
      [] cmd = "alembic init alembic" -> "alembic"
      [] cmd = "npx create-next-app@latest ." -> "npx"
      [] cmd \in {"npm install axios", "npm install -D ..."} -> "npm"
      [] OTHER -> ""

\* at most one of the external tools is absent
MissingSets == {{}, {"git"}, {"uv"}, {"npx"}, {"npm"}}

\* shell=True: the shell exits with 127 when it does not find the executable
ExitStatuses(cmd, miss) == IF Executable(cmd) \in miss THEN {127} ELSE ReturnCodes

\* communicate(input="y\n")
GeneratorStdin == <<"y", "\n">>

----------------------------------------------------------------------------
(* JSON objects are functions from keys to values *)

Put(d, k, v) == [x \in DOMAIN d \cup {k} |-> IF x = k THEN v ELSE d[x]]

NoConfig == <<>>

WithOptional(ds, k, vals) == ds \cup {Put(d, k, v) : d \in ds, v \in vals}

\* the compilerOptions objects the generator may write
CompilerOptionsSets ==
    WithOptional(WithOptional({[strict |-> TRUE]}, "target", {"ES5", "ES2017"}),
                 "forceConsistentCasingInFileNames", {FALSE, TRUE})

\* the tsconfig.json contents the generator may write
TsConfigs == {[compilerOptions |-> co, include |-> "src"] : co \in CompilerOptionsSets}

\* setup_frontend: the two assignments between json.load and json.dump
\* variant: compilerOptions is replaced by the two fields
PatchConfigReplacesOptions(cfg) ==
    Put(cfg, "compilerOptions",
        Put(Put(<<>>, "target", "ES2017"), "forceConsistentCasingInFileNames", TRUE))

PatchConfig(cfg) ==
    Put(cfg, "compilerOptions",
        Put(Put(cfg["compilerOptions"], "target", "ES2017"),
            "forceConsistentCasingInFileNames", TRUE))

\* variant: the check flag is ignored
RunCommandExitsAlways(rc, check) == rc # 0

\* variant: a command that was not found is not taken as a failure
RunCommandExitsUnlessNotFound(rc, check) == check /\ rc # 0 /\ rc # 127

\* variant: a negative status (killed by a signal) is not taken as a failure
RunCommandExitsPositive(rc, check) == check /\ rc > 0

\* run_command: subprocess.run(check=check) raises CalledProcessError, and the
\* handler exits, when check is set and the status is not zero
RunCommandExits(rc, check) == check /\ rc # 0

\* variant: a negative status (killed by a signal) is not taken as a failure
PopenExitsPositive(rc) == rc > 0

\* setup_frontend: the test of process.returncode after communicate()
PopenExits(rc) == rc # 0

\* input() of setup(): a line, or end of file on standard input
Responses ==
    {[eof |-> FALSE, line |-> l] :
        l \in {<<>>, <<"y">>, <<"Y">>, <<"n">>, <<"N">>, <<"y", "e", "s">>, <<" ", "y">>}}
    \cup {[eof |-> TRUE, line |-> <<>>]}

NoResponse == [eof |-> FALSE, line |-> <<"unasked">>]

\* variant: any answer that starts with y confirms
ConfirmedStartsWithY(line) == line # <<>> /\ Lower(<<line[1]>>) = <<"y">>

\* variant: anything but "n" confirms
ConfirmedUnlessNo(line) == Lower(line) # <<"n">>

\* setup(): the test of the response, TRUE when the removal is confirmed
Confirmed(line) == Lower(line) = <<"y">>

----------------------------------------------------------------------------
(* The emitted backend session module (templates/backend/session.py).      *)
(* An exception is a record [class, msg], msg a sequence of words.         *)

MaxRetries == 2

\* values of max_retries; range(max_retries + 1) is empty for -1
RetryCounts == -1..MaxRetries

ConnectionPhrases ==
    { <<"server", "closed", "the", "connection">>,
      <<"connection", "closed">>,
      <<"connection", "was", "closed">>,
      <<"connection", "terminated">>,
      <<"connection", "lost">>,
      <<"connection", "reset">> }

\* str.lower(), on the words that occur in Messages
LowerWord(w) ==
    CASE w = "Connection" -> "connection"
      [] w = "SSL" -> "ssl"
      [] OTHER -> w

LowerWords(ws) == [i \in 1..Len(ws) |-> LowerWord(ws[i])]

\* phrase in ws
Contains(ws, phrase) ==
    \E i \in 1..(Len(ws) - Len(phrase) + 1) : SubSeq(ws, i, i + Len(phrase) - 1) = phrase

Messages ==
    { <<"server", "closed", "the", "connection", "unexpectedly">>,
      <<"Connection", "reset", "by", "peer">>,
      <<"SSL", "connection", "has", "been", "closed", "unexpectedly">>,
      <<"syntax", "error">> }

NoException == [class |-> "None", msg |-> <<>>]

\* func returns normally
Returned == [class |-> "return", msg |-> <<>>]

\* raise last_exception with last_exception None
RaiseNone == [class |-> "TypeError", msg |-> <<"exceptions", "must", "derive", "from", "BaseException">>]

\* what one invocation of the wrapped function may raise
Exceptions ==
    {[class |-> c, msg |-> m] : c \in {"OperationalError", "DisconnectionError"}, m \in Messages}
    \cup {[class |-> "ValueError", msg |-> <<"Connection", "reset", "by", "peer">>]}

FuncOutcomes == Exceptions \cup {Returned}

\* except (OperationalError, DisconnectionError)
IsDbError(e) == e.class \in {"OperationalError", "DisconnectionError"}

\* any(phrase in str(e).lower() for phrase in [...])
IsConnectionError(e) == \E ph \in ConnectionPhrases : Contains(LowerWords(e.msg), ph)

\* variant: every database error is retried, whatever its message
ShouldRetryAnyDbError(e, attempt, max_retries) == IsDbError(e) /\ attempt < max_retries

\* the path of wrapper() that reaches `continue`
ShouldRetry(e, attempt, max_retries) ==
    IsDbError(e) /\ IsConnectionError(e) /\ attempt < max_retries

RetryIdle ==
    [pc |-> "idle", max_retries |-> 0, attempt |-> 0, history |-> <<>>,
     last_exception |-> NoException, raised |-> NoException]

\* wrapper() entered: last_exception = None, first iteration of the loop
RetryStart(m) == [RetryIdle EXCEPT !.pc = "loop", !.max_retries = m]

\* the attributes set by BaseSession.__init__
NewObject == Put(Put(<<>>, "session", "None"), "_session", "None")

\* the attribute __exit__ reads the context manager from
ExitAttr == "_session_cm"

SessionIdle ==
    [pc |-> "idle", obj |-> NewObject, cm |-> "none", exc |-> "None",
     commits |-> 0, closes |-> 0, exit_result |-> "pending"]

\* BaseSession() constructed
SessionNew == [SessionIdle EXCEPT !.pc = "new"]

\* exceptions the body of the with block may raise
BodyOutcomes == {"None", "ValueError", "KeyError"}

----------------------------------------------------------------------------
(* The process *)

\* inputs of the runs explored through the whole pipeline
RunNames == {<<"a">>, <<"a", "-">>, <<"_">>, <<"a", "/">>}

RunArgBasePaths == {None, Some(<<"/", "x">>)}

RunEnvBasePaths == {None, Some(<<"/", "e">>)}

Start(names, argBases, envBases) ==
    /\ pc = "main"
    /\ ip = 1
    /\ argv_name \in names
    /\ argv_base \in argBases
    /\ env_base \in envBases
    /\ project_name = <<>>
    /\ base_path = NoPath
    /\ project_path = NoPath
    /\ base_exists \in BOOLEAN
    /\ fs \in InitialTrees
    /\ Exists(fs, Root) => base_exists
    /\ response = NoResponse
    /\ attempted = <<>>
    /\ emitted = <<>>
    /\ exit_code = NotExited
    /\ outcome = "running"
    /\ fs0 = fs
    /\ base0 = base_exists
    /\ missing \in MissingSets
    /\ stdin_sent = <<>>
    /\ tsconfig = NoConfig

\* the emitted session module is not executed by the script
TemplatesIdle == retry = RetryIdle /\ session = SessionIdle

Init == Start(RunNames, RunArgBasePaths, RunEnvBasePaths) /\ TemplatesIdle

\* every bounded name and every combination of base-path inputs
InitCli == Start(Names, ArgBasePaths, EnvBasePaths) /\ TemplatesIdle

inputs == <<argv_name, argv_base, env_base, fs0, base0, missing>>

\* state of the emitted session module
templates == <<retry, session>>

\* state touched by setup_frontend only
frontend_io == <<stdin_sent, tsconfig>>

object == <<project_name, base_path, project_path>>

\* sys.exit(code), or the return of main() with code 0
Exit(code, how) ==
    /\ pc' = "exit"
    /\ exit_code' = code
    /\ outcome' = how

\* an exception nothing catches: traceback, exit status 1
Raise == Exit(1, "crashed")

Continue(next) ==
    /\ pc' = next
    /\ UNCHANGED <<exit_code, outcome>>

\* variant: the base directory is created before the name is validated
MainCreatesBaseFirst ==
    /\ pc = "main"
    /\ base_exists' = TRUE
    /\ IF ValidName(argv_name) THEN Continue("init") ELSE Exit(1, "invalid_name")
    /\ UNCHANGED <<ip, inputs, templates, frontend_io, object, fs, response, attempted, emitted>>

\* main(): argument parsing and validation of the project name
Main ==
    /\ pc = "main"
    /\ IF ValidName(argv_name) THEN Continue("init") ELSE Exit(1, "invalid_name")
    /\ UNCHANGED <<ip, inputs, templates, frontend_io, object, base_exists, fs, response, attempted, emitted>>

\* MonorepoSetup.__init__
Construct ==
    /\ pc = "init"
    /\ project_name' = argv_name
    /\ base_path' = ResolveBasePath(argv_base, env_base)
    /\ project_path' = PathJoin(base_path', argv_name)
    /\ Continue("setup_base")
    /\ UNCHANGED <<ip, inputs, templates, frontend_io, base_exists, fs, response, attempted, emitted>>

\* setup(): ensure the base path exists
EnsureBase ==
    /\ pc = "setup_base"
    /\ base_exists' = TRUE
    /\ Continue("setup_check")
    /\ UNCHANGED <<ip, inputs, templates, frontend_io, object, fs, response, attempted, emitted>>

\* setup(): check whether project_path exists, ask, remove or cancel
\* variant: the confirmation is asked for whether project_path exists or not
CheckExistingAlwaysAsks ==
    /\ pc = "setup_check"
    /\ \E r \in Responses :
          /\ response' = r
          /\ IF r.eof
             THEN Raise /\ UNCHANGED fs
             ELSE IF Confirmed(r.line)
             THEN IF fs[Root] \in {"dir", "absent"}
                  THEN fs' = RmTree(fs, Root) /\ Continue("structure")
                  ELSE Raise /\ UNCHANGED fs
             ELSE Exit(0, "cancelled") /\ UNCHANGED fs
    /\ UNCHANGED <<ip, inputs, templates, frontend_io, object, base_exists, attempted, emitted>>

\* variant: an answer that is neither yes nor no is asked for again
CheckExistingAsksAgain ==
    /\ pc = "setup_check"
    /\ IF ~Exists(fs, Root)
       THEN /\ Continue("structure")
            /\ UNCHANGED <<fs, response>>
       ELSE \E r \in Responses :
              /\ response' = r
              /\ IF r.eof
                 THEN Raise /\ UNCHANGED fs
                 ELSE IF Confirmed(r.line)
                 THEN IF fs[Root] = "dir"
                      THEN fs' = RmTree(fs, Root) /\ Continue("structure")
                      ELSE Raise /\ UNCHANGED fs
                 ELSE IF Lower(r.line) = <<"n">>
                 THEN Exit(0, "cancelled") /\ UNCHANGED fs
                 ELSE UNCHANGED <<fs, pc, exit_code, outcome>>
    /\ UNCHANGED <<ip, inputs, templates, frontend_io, object, base_exists, attempted, emitted>>

CheckExisting ==
    /\ pc = "setup_check"
    /\ IF ~Exists(fs, Root)
       THEN /\ Continue("structure")
            /\ UNCHANGED <<fs, response>>
       ELSE \E r \in Responses :
              /\ response' = r
              /\ IF r.eof
                 THEN Raise /\ UNCHANGED fs
                 ELSE IF Confirmed(r.line)
                 THEN IF fs[Root] = "dir"
                      THEN fs' = RmTree(fs, Root) /\ Continue("structure")
                      ELSE Raise /\ UNCHANGED fs
                 ELSE Exit(0, "cancelled") /\ UNCHANGED fs
    /\ UNCHANGED <<ip, inputs, templates, frontend_io, object, base_exists, attempted, emitted>>

\* plain mkdir(exist_ok=True) of a child of an existing directory
MkdirChildRaises(f, p) == IsFile(f, p) \/ f[Parent(p)] # "dir"

\* create_project_structure()
CreateProjectStructure ==
    /\ pc = "structure"
    /\ IF MkdirRaises(fs, Root)
       THEN Raise /\ UNCHANGED fs
       ELSE LET f1 == Mkdirs(fs, Root)
            IN  IF MkdirChildRaises(f1, FrontendDir)
                THEN fs' = f1 /\ Raise
                ELSE LET f2 == Mkdirs(f1, FrontendDir)
                     IN  IF MkdirChildRaises(f2, BackendDir)
                         THEN fs' = f2 /\ Raise
                         ELSE fs' = Mkdirs(f2, BackendDir) /\ Continue("pipeline")
    /\ ip' = 1
    /\ UNCHANGED <<inputs, templates, frontend_io, object, base_exists, response, attempted, emitted>>

AtStep(op) == pc = "pipeline" /\ ip <= Len(Pipeline) /\ Pipeline[ip].op = op

Advance == ip' = ip + 1 /\ Continue("pipeline")

\* create_file(relative_path, content)
CreateFileStep ==
    /\ AtStep("create")
    /\ LET step == Pipeline[ip]
       IN  /\ fs' = CreateFile(fs, step.path, step.content)
           /\ emitted' = IF MkdirRaises(fs, Parent(step.path)) THEN emitted
                         ELSE Append(emitted, step.path)
           /\ IF CreateFileRaises(fs, step.path)
              THEN Raise /\ UNCHANGED ip
              ELSE Advance
    /\ UNCHANGED <<inputs, templates, frontend_io, object, base_exists, response, attempted>>

\* remove_file(relative_path)
RemoveFileStep ==
    /\ AtStep("remove")
    /\ LET step == Pipeline[ip]
       IN  /\ fs' = RemoveFile(fs, step.path)
           /\ IF RemoveFileRaises(fs, step.path)
              THEN Raise /\ UNCHANGED ip
              ELSE Advance
    /\ UNCHANGED <<inputs, templates, frontend_io, object, base_exists, response, attempted, emitted>>

\* <dir>.mkdir(parents=True, exist_ok=True) in setup_backend
MkdirStepAct ==
    /\ AtStep("mkdir")
    /\ LET step == Pipeline[ip]
       IN  IF MkdirRaises(fs, step.path)
           THEN Raise /\ UNCHANGED <<ip, fs>>
           ELSE fs' = Mkdirs(fs, step.path) /\ Advance
    /\ UNCHANGED <<inputs, templates, frontend_io, object, base_exists, response, attempted, emitted>>

\* variant: the error handler removes the project tree before exiting
RunCommandCleansUp ==
    /\ AtStep("run")
    /\ LET step == Pipeline[ip]
       IN  IF fs[step.path] # "dir"
           THEN Raise /\ UNCHANGED <<ip, fs, attempted>>
           ELSE \E rc \in ExitStatuses(step.cmd, missing) :
                \E files \in CmdFiles(step.cmd, rc) :
                  /\ attempted' = Append(attempted, [cmd |-> step.cmd, rc |-> rc])
                  /\ IF RunCommandExits(rc, step.check)
                     THEN /\ fs' = RmTree(fs, Root)
                          /\ Exit(1, "command_failed")
                          /\ UNCHANGED ip
                     ELSE /\ fs' = CmdEffect(fs, step.cmd, rc, files)
                          /\ Advance
    /\ UNCHANGED <<inputs, templates, frontend_io, object, base_exists, response, emitted>>

\* run_command(command, cwd, check)
RunCommand ==
    /\ AtStep("run")
    /\ LET step == Pipeline[ip]
       IN  IF fs[step.path] # "dir"
           THEN Raise /\ UNCHANGED <<ip, fs, attempted>>
           ELSE \E rc \in ExitStatuses(step.cmd, missing) :
                \E files \in CmdFiles(step.cmd, rc) :
                  /\ attempted' = Append(attempted, [cmd |-> step.cmd, rc |-> rc])
                  /\ fs' = CmdEffect(fs, step.cmd, rc, files)
                  /\ IF RunCommandExits(rc, step.check)
                     THEN Exit(1, "command_failed") /\ UNCHANGED ip
                     ELSE Advance
    /\ UNCHANGED <<inputs, templates, frontend_io, object, base_exists, response, emitted>>

\* setup_frontend: subprocess.Popen of the generator, communicate(input="y\n")
PopenGenerator ==
    /\ AtStep("popen")
    /\ LET step == Pipeline[ip]
       IN  IF fs[step.path] # "dir"
           THEN Raise /\ UNCHANGED <<ip, fs, attempted, frontend_io>>
           ELSE \E rc \in ExitStatuses(step.cmd, missing) :
                \E files \in CmdFiles(step.cmd, rc) :
                  /\ attempted' = Append(attempted, [cmd |-> step.cmd, rc |-> rc])
                  /\ stdin_sent' = GeneratorStdin
                  /\ fs' = CmdEffect(fs, step.cmd, rc, files)
                  /\ tsconfig' \in IF TsconfigPath \in files THEN TsConfigs ELSE {NoConfig}
                  /\ IF PopenExits(rc)
                     THEN Exit(1, "command_failed") /\ UNCHANGED ip
                     ELSE Advance
    /\ UNCHANGED <<inputs, templates, object, base_exists, response, emitted>>

\* variant: the file is opened without the test of its existence
PatchTsconfigRequiresFile ==
    /\ AtStep("patch")
    /\ LET step == Pipeline[ip]
       IN  IF ~IsFile(fs, step.path)
           THEN Raise /\ UNCHANGED <<ip, fs, tsconfig>>
           ELSE /\ tsconfig' = PatchConfig(tsconfig)
                /\ fs' = [fs EXCEPT ![step.path] = "patched"]
                /\ Advance
    /\ UNCHANGED <<inputs, templates, stdin_sent, object, base_exists, response, attempted, emitted>>

\* setup_frontend: rewrite tsconfig.json when it exists
PatchTsconfig ==
    /\ AtStep("patch")
    /\ LET step == Pipeline[ip]
       IN  IF ~Exists(fs, step.path)
           THEN UNCHANGED <<fs, tsconfig>> /\ Advance
           ELSE IF fs[step.path] = "dir"
           THEN Raise /\ UNCHANGED <<ip, fs, tsconfig>>
           ELSE /\ tsconfig' = PatchConfig(tsconfig)
                /\ fs' = [fs EXCEPT ![step.path] = "patched"]
                /\ Advance
    /\ UNCHANGED <<inputs, templates, stdin_sent, object, base_exists, response, attempted, emitted>>

\* setup() and main() return
Finish ==
    /\ pc = "pipeline"
    /\ ip = Len(Pipeline) + 1
    /\ Exit(0, "done")
    /\ UNCHANGED <<ip, inputs, templates, frontend_io, object, base_exists, fs, response, attempted, emitted>>

Next ==
    \/ Main
    \/ Construct
    \/ EnsureBase
    \/ CheckExisting
    \/ CreateProjectStructure
    \/ CreateFileStep
    \/ RemoveFileStep
    \/ MkdirStepAct
    \/ RunCommand
    \/ PopenGenerator
    \/ PatchTsconfig
    \/ Finish

Spec == Init /\ [][Next]_vars

\* the command line up to the constructed MonorepoSetup object
NextCli ==
    \/ Main
    \/ Construct

\* the process is never suspended for ever: a command that has been started
\* exits and the confirmation read returns
SpecFair == Spec /\ WF_vars(Next)

SpecCli == InitCli /\ [][NextCli]_vars


setup_vars ==
    <<pc, ip, inputs, frontend_io, object, base_exists, fs, response, attempted,
      emitted, exit_code, outcome>>

\* one iteration of the loop of wrapper(): await func(), then return, continue or raise
RetryCall ==
    /\ retry.pc = "loop"
    /\ retry.attempt <= retry.max_retries
    /\ \E o \in FuncOutcomes :
         LET h == Append(retry.history, o)
         IN  retry' =
               IF o = Returned
               THEN [retry EXCEPT !.pc = "returned", !.history = h]
               ELSE IF ShouldRetry(o, retry.attempt, retry.max_retries)
               THEN [retry EXCEPT !.attempt = @ + 1, !.history = h, !.last_exception = o]
               ELSE [retry EXCEPT !.pc = "raised", !.history = h, !.raised = o,
                                  !.last_exception = IF IsDbError(o) THEN o ELSE @]
    /\ UNCHANGED <<setup_vars, session>>

\* the loop ran out: raise last_exception
RetryExhausted ==
    /\ retry.pc = "loop"
    /\ retry.attempt > retry.max_retries
    /\ retry' = [retry EXCEPT !.pc = "raised",
                              !.raised = IF retry.last_exception = NoException
                                         THEN RaiseNone ELSE retry.last_exception]
    /\ UNCHANGED <<setup_vars, session>>

\* BaseSession.__enter__
SessionEnter ==
    /\ session.pc = "new"
    /\ session' = [session EXCEPT !.pc = "entered", !.cm = "suspended",
                                  !.obj = Put(Put(@, "_session", "cm"), "session", "db")]
    /\ UNCHANGED <<setup_vars, retry>>

\* the body of the with block
SessionBody ==
    /\ session.pc = "entered"
    /\ \E e \in BodyOutcomes : session' = [session EXCEPT !.pc = "leaving", !.exc = e]
    /\ UNCHANGED <<setup_vars, retry>>

\* BaseSession.__exit__
SessionExit ==
    /\ session.pc = "leaving"
    /\ LET committed == IF session.exc = "None" THEN session.commits + 1 ELSE session.commits
       IN  session' =
             IF ExitAttr \in DOMAIN session.obj
             THEN [session EXCEPT !.pc = "exited", !.commits = committed,
                                  !.closes = @ + 2, !.cm = "finished",
                                  !.exit_result = IF session.exc = "None" THEN "returned"
                                                  ELSE session.exc]
             ELSE [session EXCEPT !.pc = "exited", !.commits = committed,
                                  !.closes = @ + 1,
                                  !.exit_result = "AttributeError"]
    /\ UNCHANGED <<setup_vars, retry>>

\* the session module in use: the script itself is not running
InitTemplate ==
    /\ Start({<<"a">>}, {None}, {None})
    /\ fs = EmptyFs /\ ~base_exists /\ missing = {}
    /\ retry \in {RetryStart(m) : m \in RetryCounts}
    /\ session = SessionNew

NextTemplate ==
    \/ RetryCall
    \/ RetryExhausted
    \/ SessionEnter
    \/ SessionBody
    \/ SessionExit

SpecTemplate == InitTemplate /\ [][NextTemplate]_vars

TypeOK ==
    /\ pc \in {"main", "init", "setup_base", "setup_check", "structure", "pipeline", "exit"}
    /\ ip \in 1..(Len(Pipeline) + 1)
    /\ exit_code \in {NotExited, 0, 1}
    /\ outcome \in {"running", "done", "cancelled", "invalid_name", "command_failed", "crashed"}
    /\ (pc = "exit") = (exit_code # NotExited)

----------------------------------------------------------------------------
(* Properties *)

\* the MonorepoSetup object exists
Constructed == pc \notin {"main", "init"} /\ outcome # "invalid_name"

Exited == pc = "exit"

DefaultBasePath ==
    [anchor |-> "/", parts |-> << <<"h", "o", "m", "e">>, ProjectsDir >>]

\* C1 (as stated): an explicit base path, when given, is the base path; otherwise
\* the environment variable, when set, is; otherwise <home>/Projects.
C1_AsStated ==
    Constructed =>
        base_path = IF argv_base.given THEN PathOf(argv_base.val)
                    ELSE IF env_base.given THEN PathOf(env_base.val)
                    ELSE DefaultBasePath

\* C1 (amended): a non-empty explicit base path is the base path; otherwise a
\* non-empty value of MONOREPO_BASE_PATH is; otherwise <home>/Projects (an empty
\* argument or an empty environment value counts as unset).  The resolution
\* always yields a path and changes nothing on the filesystem.
C1_BasePathPrecedence ==
    Constructed =>
        /\ (argv_base.given /\ argv_base.val # <<>>)
              => base_path = PathOf(argv_base.val)
        /\ (~(argv_base.given /\ argv_base.val # <<>>) /\ env_base.given /\ env_base.val # <<>>)
              => base_path = PathOf(env_base.val)
        /\ (~(argv_base.given /\ argv_base.val # <<>>) /\ ~(env_base.given /\ env_base.val # <<>>))
              => base_path = DefaultBasePath
        /\ base_path # NoPath
        /\ pc = "setup_base" => (fs = fs0 /\ base_exists = base0)

\* both an explicit base path and the environment variable are set and non-empty
C1_Witness ==
    /\ pc = "setup_base"
    /\ argv_base = Some(<<"/", "x">>)
    /\ env_base = Some(<<"/", "e">>)
    /\ base_path = [anchor |-> "/", parts |-> << <<"x">> >>]

\* C2: a project name is accepted if and only if it is non-empty and made of
\* letters, digits, hyphens and underscores only.
C2_AcceptedIffAllowed ==
    pc # "main" =>
        ((outcome # "invalid_name")
            <=> (/\ Len(argv_name) > 0
                 /\ \A i \in 1..Len(argv_name) : argv_name[i] \in {"a", "7", "-", "_"}))

\* C3: for an accepted name, project_path is base_path/name with name as its
\* last component, and name, base_path and project_path never change afterwards.
C3_ProjectPath ==
    /\ [](Constructed =>
            /\ project_name = argv_name
            /\ project_path.anchor = base_path.anchor
            /\ project_path.parts = Append(base_path.parts, project_name))
    /\ [][Constructed => UNCHANGED object]_vars

C3_Witness ==
    /\ outcome = "done"
    /\ project_name = <<"a", "-">>
    /\ project_path = [anchor |-> "/", parts |-> << <<"x">>, <<"a", "-">> >>]

\* C4: a rejected project name ends the process with status 1 before any side
\* effect: nothing created (base directory included), no confirmation asked, no
\* command run.
C4_RejectedNoSideEffect ==
    LET disallowed == \/ argv_name = <<>>
                      \/ \E i \in 1..Len(argv_name) : argv_name[i] \notin {"a", "7", "-", "_"}
        untouched  == /\ fs = fs0
                      /\ base_exists = base0
                      /\ response = NoResponse
                      /\ attempted = <<>>
                      /\ emitted = <<>>
    IN  /\ (disallowed /\ pc # "main")
            => (outcome = "invalid_name" /\ exit_code = 1 /\ untouched)
        /\ outcome = "invalid_name" => (exit_code = 1 /\ untouched)

\* a name with a space is rejected while the base directory is missing
C4_Witness ==
    /\ outcome = "invalid_name"
    /\ argv_name = <<"a", " ">>
    /\ ~base_exists

Asked == response # NoResponse

Declined == Asked /\ ~response.eof /\ response.line \notin {<<"y">>, <<"Y">>}

\* C5: project_path exists and the confirmation is declined: the run is
\* CANCELLED with status 0, the filesystem is as at start, no command was run.
C5_DeclinedUnchanged ==
    (Exists(fs0, Root) /\ Declined) =>
        /\ outcome = "cancelled"
        /\ exit_code = 0
        /\ fs = fs0
        /\ base_exists = base0
        /\ attempted = <<>>
        /\ emitted = <<>>

C5_Witness ==
    /\ fs0 = OldTree(OldFiles)
    /\ response = [eof |-> FALSE, line |-> <<>>]
    /\ outcome = "cancelled"

\* C6: when the structure is ready (before the root ignore-file is written)
\* project_path holds exactly the empty directories frontend/ and backend/,
\* whether project_path existed before (and its removal was confirmed) or not;
\* the old contents are gone before the new tree is created.
C6_FreshStructure ==
    /\ (pc = "structure" /\ fs0[Root] = "dir") => \A p \in FsPaths : fs[p] = "absent"
    /\ (pc = "pipeline" /\ ip = 1) =>
          \A p \in FsPaths :
             fs[p] = IF p \in {Root, FrontendDir, BackendDir} THEN "dir" ELSE "absent"

C6_Witness ==
    /\ pc = "pipeline"
    /\ ip = 1
    /\ fs0 = OldTree(OldFiles)
    /\ response = [eof |-> FALSE, line |-> <<"Y">>]

C6_WitnessNew ==
    /\ pc = "pipeline"
    /\ ip = 1
    /\ ~Exists(fs0, Root)
    /\ ~base0

IsCmd(s) == s.op \in {"run", "popen"}

\* the commands, resp. the created paths, of the first k steps of the pipeline
CmdsUpTo(k) ==
    LET steps == SelectSeq(SubSeq(Pipeline, 1, k), IsCmd)
    IN  [i \in 1..Len(steps) |-> steps[i].cmd]

CreatesUpTo(k) ==
    LET steps == SelectSeq(SubSeq(Pipeline, 1, k), LAMBDA s : s.op = "create")
    IN  [i \in 1..Len(steps) |-> steps[i].path]

AttemptedCmds == [i \in 1..Len(attempted) |-> attempted[i].cmd]

\* C7: when a hard-fail command exits non-zero the process exits with status 1
\* having attempted exactly the commands up to and including it (all earlier
\* hard-fail commands having succeeded), and having emitted exactly the files
\* that precede it; this holds for run_command and for the Popen generator.
C7_HardFailStops ==
    outcome = "command_failed" =>
        /\ exit_code = 1
        /\ Exited
        /\ IsCmd(Pipeline[ip])
        /\ Pipeline[ip].check
        /\ AttemptedCmds = CmdsUpTo(ip)
        /\ emitted = CreatesUpTo(ip)
        /\ attempted[Len(attempted)].rc # 0
        /\ \A i \in 1..(Len(attempted) - 1) :
              attempted[i].cmd # "git init" => attempted[i].rc = 0

\* the frontend generator is killed by a signal
C7_Witness ==
    /\ outcome = "command_failed"
    /\ Pipeline[ip].op = "popen"
    /\ attempted[Len(attempted)].rc = -9
    /\ Len(attempted) = 10

C7_WitnessRun ==
    /\ outcome = "command_failed"
    /\ Pipeline[ip].cmd = "uv add fastapi ..."
    /\ Len(attempted) = 7
    /\ Len(emitted) = 6

\* C8: git init is soft-fail: the process never ends on its failure, and the
\* steps that follow are the same whatever its exit status was.
C8_GitInitSoftFail ==
    /\ outcome = "command_failed" => attempted[Len(attempted)].cmd # "git init"
    /\ (pc = "pipeline" /\ ip > 2) =>
          /\ attempted[1].cmd = "git init"
          /\ AttemptedCmds = CmdsUpTo(ip - 1)
          /\ emitted = CreatesUpTo(ip - 1)

C8_Witness ==
    /\ pc = "pipeline"
    /\ ip = 4
    /\ attempted = << [cmd |-> "git init", rc |-> 1] >>
    /\ emitted = << <<".gitignore">>, <<".vscode", "settings.json">> >>

\* C9: DONE is reached only if every hard-fail command exited with status 0
\* (a run goes on only while every hard-fail command attempted so far has);
\* the status of git init is the only one that does not matter.
C9_DoneOnlyIfAllSucceeded ==
    /\ outcome \in {"running", "done"} =>
          \A i \in 1..Len(attempted) :
             attempted[i].cmd # "git init" => attempted[i].rc = 0
    /\ outcome = "done" =>
          /\ AttemptedCmds = CmdsUpTo(Len(Pipeline))
          /\ Len(attempted) = 12

C9_Witness ==
    /\ outcome = "done"
    /\ exit_code = 0
    /\ attempted[1] = [cmd |-> "git init", rc |-> 127]

\* C10: the exit status is 0 exactly when the run completed or was cancelled,
\* 1 exactly when the project name was invalid or a hard-fail command failed,
\* and a run ends in no other way.
C10_ExitStatus ==
    Exited =>
        /\ (exit_code = 0) <=> (outcome \in {"done", "cancelled"})
        /\ (exit_code = 1) <=> (outcome \in {"invalid_name", "command_failed"})
        /\ outcome \in {"done", "cancelled", "invalid_name", "command_failed"}

WasAttempted(c) == \E i \in 1..Len(attempted) : attempted[i].cmd = c

WasEmitted(p) == \E i \in 1..Len(emitted) : emitted[i] = p

\* C11: the top-level steps run in the order prepare tree, root ignore-file,
\* git init, editor configuration, backend, frontend, root readme; each starts
\* after the earlier ones have finished, none is skipped, and the root readme
\* is the last file emitted.
C11_TopLevelOrder ==
    /\ [](emitted # <<>> =>
            (emitted[1] = <<".gitignore">> /\ fs[FrontendDir] = "dir" /\ fs[BackendDir] = "dir"))
    /\ [](attempted # <<>> => (attempted[1].cmd = "git init" /\ emitted # <<>>))
    /\ [](Len(emitted) >= 2 =>
            (emitted[2] = <<".vscode", "settings.json">> /\ attempted # <<>>))
    /\ [](WasAttempted("uv init .") => Len(emitted) >= 2)
    /\ [](WasAttempted("npx create-next-app@latest .") => WasEmitted(AlembicEnv))
    /\ [](WasEmitted(<<"README.md">>) =>
            /\ emitted[Len(emitted)] = <<"README.md">>
            /\ WasAttempted("npm install -D ...")
            /\ WasEmitted(<<"frontend", ".eslintrc.json">>)
            /\ fs[TsconfigPath] \in {"absent", "patched"})
    /\ [](outcome = "done" =>
            /\ WasEmitted(<<"README.md">>)
            /\ Len(emitted) = 18
            /\ Len(attempted) = 12)
    /\ [][(pc = "pipeline" /\ pc' = "pipeline") => ip' = ip + 1]_vars

C11_Witness ==
    /\ outcome = "done"
    /\ emitted[18] = <<"README.md">>
    /\ emitted[17] = <<"frontend", ".eslintrc.json">>
    /\ attempted[12].cmd = "npm install -D ..."

\* the state of a run, from the position of the process
RunState ==
    IF pc = "exit"
    THEN CASE outcome = "done" -> "DONE"
           [] outcome = "cancelled" -> "CANCELLED"
           [] OTHER -> "FAILED"
    ELSE IF pc # "pipeline" THEN "INIT"
    ELSE IF attempted = <<>> THEN "STRUCTURE_READY"
    ELSE IF ~WasEmitted(AlembicEnv) THEN "VCS_ATTEMPTED"
    ELSE IF ip < Len(Pipeline) THEN "BACKEND_READY"
    ELSE "FRONTEND_READY"

Rank(st) ==
    CASE st = "INIT" -> 0
      [] st = "STRUCTURE_READY" -> 1
      [] st = "VCS_ATTEMPTED" -> 2
      [] st = "BACKEND_READY" -> 3
      [] st = "FRONTEND_READY" -> 4
      [] OTHER -> 5

\* C12: a run moves through INIT, STRUCTURE_READY, VCS_ATTEMPTED, BACKEND_READY,
\* FRONTEND_READY, DONE in that order, one state at a time; CANCELLED is entered
\* from INIT only; no state is revisited and no failed command is invoked again.
C12_StateMachine ==
    /\ [][/\ RunState \notin {"DONE", "CANCELLED", "FAILED"}
          /\ RunState' = "CANCELLED" => RunState = "INIT"
          /\ RunState' \notin {"CANCELLED", "FAILED"} =>
                Rank(RunState') \in {Rank(RunState), Rank(RunState) + 1}]_vars
    /\ [](\A i, j \in 1..Len(attempted) :
            (i < j /\ attempted[i].rc # 0) => attempted[j].cmd # attempted[i].cmd)

\* a complete run after a failed git init
C12_Witness ==
    /\ RunState = "DONE"
    /\ attempted[1].rc = 1
    /\ Len(attempted) = 12

Placeholders ==
    {<<"backend", ".gitignore">>, <<"backend", "hello.py">>,
     <<"backend", "main.py">>, <<"frontend", ".gitignore">>}

\* C13: after a successful run the tree holds frontend/, backend/, the root
\* .gitignore, .vscode/settings.json and the root README.md, and none of the
\* generator-default placeholder files.
C13_FinalTree ==
    /\ WasAttempted("uv venv") =>
          \A p \in Placeholders : p[1] = "backend" => fs[p] = "absent"
    /\ outcome = "done" =>
        /\ fs[Root] = "dir"
        /\ fs[FrontendDir] = "dir"
        /\ fs[BackendDir] = "dir"
        /\ fs[<<".gitignore">>] = "gitignore_content"
        /\ fs[<<".vscode", "settings.json">>] = "vscode_settings"
        /\ fs[<<"README.md">>] = "readme_content"
        /\ \A p \in Placeholders : fs[p] = "absent"

\* a complete run whose generators did write their default files
C13_Witness ==
    /\ outcome = "done"
    /\ fs[<<"frontend", "package.json">>] = "generated"
    /\ fs[TsconfigPath] = "patched"
    /\ fs[<<"backend", ".venv">>] = "dir"

\* C14: when a hard-fail command fails, everything that existed before the
\* failing command is still there, unchanged, at process exit: no rollback.
C14_NoRollback ==
    [][outcome' = "command_failed" =>
          \A p \in FsPaths : Exists(fs, p) => fs'[p] = fs[p]]_vars

\* the second-wave installation fails after the manifest was written
C14_Witness ==
    /\ outcome = "command_failed"
    /\ attempted[Len(attempted)].cmd = "uv add fastapi ..."
    /\ fs[<<"backend", "pyproject.toml">>] = "pyproject_content"
    /\ fs[<<"backend", ".venv">>] = "dir"
    /\ fs[<<".gitignore">>] = "gitignore_content"

\* C15: after the compiler configuration is patched the frontend sub-pipeline
\* emits the environment template, the client bootstrap, the request wrapper,
\* the authentication hook, the provider component, the example form and its
\* page, and replaces the generator's root layout; after a successful run these
\* eight files are in the frontend tree.
C15_FrontendAppFilesEmitted ==
    outcome = "done" =>
        /\ fs[LayoutPath] \notin {"absent", "generated"}
        /\ Cardinality({i \in 1..Len(emitted) : emitted[i][1] = "frontend"}) >= 2 + 8

\* C16 (as stated): a missing executable (git, uv, npm, npx) ends the run with
\* status 1 at the first command that needs it.
C16_AsStated ==
    \A i \in 1..Len(attempted) :
        Executable(attempted[i].cmd) \in missing =>
            (i = Len(attempted) /\ outcome = "command_failed" /\ exit_code = 1)

\* C16 (amended): a missing package manager or scaffolding generator ends the
\* run with status 1 at the first command that needs it, after every earlier
\* step has run and before any later one; a missing git does not end the run,
\* git init being soft-fail.
C16_MissingExecutable ==
    /\ \A i \in 1..Len(attempted) :
          (Executable(attempted[i].cmd) \in missing /\ attempted[i].cmd # "git init") =>
              /\ i = Len(attempted)
              /\ attempted[i].rc = 127
              /\ outcome = "command_failed"
              /\ exit_code = 1
              /\ AttemptedCmds = CmdsUpTo(ip)
              /\ emitted = CreatesUpTo(ip)
    /\ (missing \cap {"uv", "npx", "npm"} # {}) => outcome # "done"
    /\ (missing # {} /\ attempted = <<>>) => outcome \notin {"command_failed", "done"}
    /\ ("git" \in missing /\ attempted # <<>>) => attempted[1] = [cmd |-> "git init", rc |-> 127]
    /\ ("git" \in missing /\ outcome = "command_failed") => Len(attempted) > 1

\* npm is missing: the run goes as far as the first npm install
C16_Witness ==
    /\ missing = {"npm"}
    /\ outcome = "command_failed"
    /\ Len(attempted) = 11
    /\ attempted[11] = [cmd |-> "npm install axios", rc |-> 127]
    /\ fs[<<"frontend", "package.json">>] = "generated"

\* git is missing and the run completes
C16_WitnessGit ==
    /\ missing = {"git"}
    /\ outcome = "done"
    /\ exit_code = 0

\* C17: provided every command exits and the confirmation read returns, every
\* run reaches its exit, with exactly one of the outcomes done, cancelled or a
\* failure; no step is ever repeated.
C17_Terminates ==
    /\ <>Exited
    /\ [](Exited => outcome \in {"done", "cancelled", "command_failed",
                                 "invalid_name", "crashed"})
    /\ [][Exited => UNCHANGED vars]_vars
    /\ [][(pc = "pipeline" /\ pc' = "pipeline") => ip' > ip]_vars

\* a run that went through the confirmation and every command
C17_Witness ==
    /\ Exited
    /\ outcome = "done"
    /\ ~response.eof /\ Confirmed(response.line)
    /\ Len(attempted) = 12

BackendCmds ==
    << "uv init .", "uv venv", "uv add --editable . --dev", "uv add --dev ruff",
       "uv sync --dev", "uv add fastapi ...", "uv sync --dev", "alembic init alembic" >>

Backend(names) == {<<"backend">> \o n : n \in names}

\* C18: the backend sub-pipeline runs init, placeholder removal, environment
\* creation, skeleton, manifest, backend readme, first-wave installation,
\* second-wave installation, configuration/env-template/model/session modules,
\* migration init, migration environment file, each command hard-fail; no
\* installation precedes the manifest and the migration init follows a
\* successful second-wave installation.
C18_BackendOrder ==
    /\ \A i \in 2..Len(attempted) :
          /\ i <= 9 => attempted[i].cmd = BackendCmds[i - 1]
          /\ i > 2 => attempted[i - 1].rc = 0
    /\ Len(attempted) >= 3 =>
          \A p \in Placeholders : p[1] = "backend" => fs[p] = "absent"
    /\ (\E p \in Backend({<<"src", "app", "__init__.py">>, <<"src", "app", "main.py">>}) :
           WasEmitted(p)) => Len(attempted) >= 3
    /\ WasEmitted(<<"backend", "pyproject.toml">>) =>
          WasEmitted(<<"backend", "src", "app", "main.py">>)
    /\ WasEmitted(<<"backend", "README.md">>) => WasEmitted(<<"backend", "pyproject.toml">>)
    /\ Len(attempted) >= 4 =>
          /\ WasEmitted(<<"backend", "pyproject.toml">>)
          /\ WasEmitted(<<"backend", "README.md">>)
    /\ (\E p \in Backend({<<"src", "app", "core", "config.py">>, <<".env.example">>,
                          <<"src", "app", "database", "models", "base.py">>,
                          <<"src", "app", "database", "session.py">>}) :
           WasEmitted(p)) => (Len(attempted) >= 8 /\ attempted[8].rc = 0)
    /\ Len(attempted) >= 9 =>
          /\ attempted[7] = [cmd |-> "uv add fastapi ...", rc |-> 0]
          /\ \A p \in Backend({<<"src", "app", "core", "config.py">>, <<".env.example">>,
                               <<"src", "app", "database", "models", "base.py">>,
                               <<"src", "app", "database", "session.py">>}) :
                WasEmitted(p)
    /\ WasEmitted(AlembicEnv) =>
          (Len(attempted) >= 9 /\ attempted[9] = [cmd |-> "alembic init alembic", rc |-> 0])
    /\ Len(attempted) >= 10 => WasEmitted(AlembicEnv)

\* the backend is complete and the frontend has not started
C18_Witness ==
    /\ pc = "pipeline"
    /\ Pipeline[ip].op = "popen"
    /\ emitted[Len(emitted)] = AlembicEnv
    /\ Len(attempted) = 9

GeneratorSucceeded ==
    /\ Len(attempted) >= 10
    /\ attempted[10] = [cmd |-> "npx create-next-app@latest .", rc |-> 0]

\* C19: the frontend sub-pipeline runs the generator with exactly one
\* affirmative line on its standard input (hard-fail), removes the generator's
\* ignore-file, installs the runtime and dev dependencies (hard-fail), writes
\* the formatter and lint configuration and then patches the compiler
\* configuration; nothing is emitted or removed under frontend/ before the
\* generator has exited successfully.
C19_FrontendOrder ==
    /\ stdin_sent = IF Len(attempted) >= 10 THEN <<"y", "\n">> ELSE <<>>
    /\ ~GeneratorSucceeded =>
          /\ \A i \in 1..Len(emitted) : emitted[i][1] # "frontend"
          /\ pc = "pipeline" =>
                ~(Pipeline[ip].op \in {"remove", "patch"} /\ Pipeline[ip].path[1] = "frontend")
          /\ fs[TsconfigPath] # "patched"
    /\ Len(attempted) >= 11 =>
          /\ GeneratorSucceeded
          /\ attempted[11].cmd = "npm install axios"
          /\ fs[<<"frontend", ".gitignore">>] = "absent"
    /\ Len(attempted) >= 12 =>
          (attempted[11].rc = 0 /\ attempted[12].cmd = "npm install -D ...")
    /\ WasEmitted(<<"frontend", ".prettierrc">>) =>
          (Len(attempted) = 12 /\ attempted[12].rc = 0)
    /\ WasEmitted(<<"frontend", ".eslintrc.json">>) => WasEmitted(<<"frontend", ".prettierrc">>)
    /\ fs[TsconfigPath] = "patched" => WasEmitted(<<"frontend", ".eslintrc.json">>)

\* the whole frontend sub-pipeline has run, patch included
C19_Witness ==
    /\ pc = "pipeline"
    /\ ip = Len(Pipeline)
    /\ fs[TsconfigPath] = "patched"
    /\ stdin_sent = <<"y", "\n">>
    /\ emitted[Len(emitted)] = <<"frontend", ".eslintrc.json">>

PatchedFields == {"target", "forceConsistentCasingInFileNames"}

\* C20: the patch of the compiler configuration sets compilerOptions.target and
\* compilerOptions.forceConsistentCasingInFileNames and leaves every other key
\* and value as it was; patching the result again changes nothing.
C20_PatchTwoFields ==
    [][(AtStep("patch") /\ IsFile(fs, TsconfigPath)) =>
          /\ DOMAIN tsconfig' = DOMAIN tsconfig
          /\ \A k \in DOMAIN tsconfig \ {"compilerOptions"} : tsconfig'[k] = tsconfig[k]
          /\ LET old == tsconfig["compilerOptions"]
                 new == tsconfig'["compilerOptions"]
             IN  /\ DOMAIN new = DOMAIN old \cup PatchedFields
                 /\ \A k \in DOMAIN old \ PatchedFields : new[k] = old[k]
                 /\ new["target"] = "ES2017"
                 /\ new["forceConsistentCasingInFileNames"] = TRUE
          /\ PatchConfig(tsconfig') = tsconfig'
          /\ UNCHANGED <<stdin_sent, emitted, attempted>>
          /\ \A p \in FsPaths \ {TsconfigPath} : fs'[p] = fs[p]]_vars

\* a configuration that had neither field has been patched
C20_Witness ==
    /\ fs[TsconfigPath] = "patched"
    /\ DOMAIN tsconfig = {"compilerOptions", "include"}
    /\ tsconfig["compilerOptions"] =
          Put(Put(Put(<<>>, "strict", TRUE), "target", "ES2017"),
              "forceConsistentCasingInFileNames", TRUE)
    /\ tsconfig["include"] = "src"

\* C21: create_file succeeds whether or not the parent directories or the
\* target file exist: afterwards the file holds exactly the given content, its
\* parents are directories, and nothing else has changed.
C21_WriteOverwrites ==
    [][AtStep("create") =>
          LET p == Pipeline[ip].path
              parents == Prefixes(Parent(p))
          IN  ((\A q \in parents : ~IsFile(fs, q)) /\ fs[p] # "dir") =>
                  /\ outcome' = "running"
                  /\ ip' = ip + 1
                  /\ fs'[p] = Pipeline[ip].content
                  /\ \A q \in parents : fs'[q] = "dir"
                  /\ \A q \in FsPaths \ ({p} \cup parents) : fs'[q] = fs[q]
                  /\ emitted' = Append(emitted, p)]_vars

\* a file written where the parent was missing, and a file written over the
\* generator's version
C21_Witness ==
    /\ fs0[<<".vscode">>] = "absent"
    /\ fs[<<".vscode", "settings.json">>] = "vscode_settings"
    /\ Len(attempted) >= 2
    /\ attempted[2] = [cmd |-> "uv init .", rc |-> 0]
    /\ fs[<<"backend", "pyproject.toml">>] = "pyproject_content"

\* C22: remove_file deletes the file when it is present and does nothing
\* otherwise; it never fails, the path is absent afterwards, every other path
\* is unchanged and a second call changes nothing.
C22_RemoveIdempotent ==
    /\ [](AtStep("remove") => fs[Pipeline[ip].path] # "dir")
    /\ [][AtStep("remove") =>
            LET p == Pipeline[ip].path
            IN  /\ outcome' = "running"
                /\ ip' = ip + 1
                /\ fs'[p] = "absent"
                /\ \A q \in FsPaths \ {p} : fs'[q] = fs[q]
                /\ RemoveFile(fs', p) = fs'
                /\ ~RemoveFileRaises(fs', p)]_vars

\* the three backend placeholders have been removed, one of them was written
\* by this version of the generator and one was not
C22_Witness ==
    /\ pc = "pipeline"
    /\ ip > 1 /\ Pipeline[ip - 1] = RemoveStep(<<"backend", "main.py">>)
    /\ \A p \in Placeholders : fs[p] = "absent"
    /\ fs[<<"backend", "pyproject.toml">>] = "generated"

\* C23: the confirmation is requested exactly when project_path exists at the
\* check, and at most once; when it does not exist, project_path, frontend/
\* and backend/ are created without a prompt and the pipeline starts.
C23_PromptIffExists ==
    /\ []((pc \in {"structure", "pipeline"} \/ outcome \in {"done", "command_failed", "cancelled"})
            => (Asked <=> Exists(fs0, Root)))
    /\ [][Asked => response' = response]_vars
    /\ [][(pc = "setup_check" /\ ~Exists(fs, Root)) =>
            (pc' = "structure" /\ ~Asked' /\ fs' = fs)]_vars
    /\ [][(pc = "structure" /\ ~Asked) =>
            /\ pc' = "pipeline" /\ ip' = 1
            /\ fs'[Root] = "dir" /\ fs'[FrontendDir] = "dir" /\ fs'[BackendDir] = "dir"
            /\ \A p \in FsPaths \ {Root, FrontendDir, BackendDir} : fs'[p] = "absent"
            /\ attempted' = <<>> /\ emitted' = <<>>]_vars

\* the structure was created without a prompt
C23_Witness ==
    /\ pc = "pipeline"
    /\ ip = 1
    /\ ~Asked
    /\ ~Exists(fs0, Root)
    /\ fs[FrontendDir] = "dir" /\ fs[BackendDir] = "dir"

\* C24: the old project is removed only when the answer is exactly "y" or "Y";
\* every other answer cancels the run with status 0 and removes nothing.
C24_OnlyExactY ==
    /\ []((Asked /\ ~response.eof /\ response.line \notin {<<"y">>, <<"Y">>}) =>
            (pc = "exit" /\ outcome = "cancelled" /\ exit_code = 0 /\ fs = fs0))
    /\ [][(pc = "setup_check" /\ fs' # fs) =>
            (~response'.eof /\ response'.line \in {<<"y">>, <<"Y">>})]_vars
    /\ \A r \in Responses : Confirmed(r.line) <=> r.line \in {<<"y">>, <<"Y">>}

\* the answer "yes" cancelled the run
C24_Witness ==
    /\ response = [eof |-> FALSE, line |-> <<"y", "e", "s">>]
    /\ outcome = "cancelled"
    /\ exit_code = 0
    /\ fs = fs0 /\ Exists(fs, Root)

\* the answer "Y" removed the old project
C24_WitnessRemoved ==
    /\ response = [eof |-> FALSE, line |-> <<"Y">>]
    /\ pc = "structure"
    /\ fs0 = OldTree(OldFiles) /\ fs = EmptyFs

\* C25: when project_path exists, as a directory or as a regular file, and the
\* confirmation is accepted, the existing entry is removed and the run goes on
\* to create the project structure; it does not end abnormally at the removal.
C25_RemovalSucceeds ==
    [][(pc = "setup_check" /\ Exists(fs, Root)
          /\ ~response'.eof /\ response'.line \in {<<"y">>, <<"Y">>}) =>
            (pc' = "structure" /\ outcome' = "running" /\ fs'[Root] = "absent")]_vars

PatchIndex == CHOOSE i \in 1..Len(Pipeline) : Pipeline[i].op = "patch"

\* C26: when frontend/tsconfig.json does not exist after the installs, the
\* patch is skipped without error and without creating the file, and the run
\* still writes the root readme and ends with status 0.
C26_PatchSkipped ==
    /\ [][(AtStep("patch") /\ fs[TsconfigPath] = "absent") =>
            (fs' = fs /\ tsconfig' = tsconfig /\ outcome' = "running" /\ ip' = ip + 1)]_vars
    /\ [][(pc = "pipeline" /\ ip >= PatchIndex /\ fs[TsconfigPath] = "absent") =>
            /\ outcome' \in {"running", "done"}
            /\ fs'[TsconfigPath] = "absent"
            /\ ip = Len(Pipeline) => fs'[<<"README.md">>] = "readme_content"
            /\ outcome' = "done" =>
                  (exit_code' = 0 /\ fs[<<"README.md">>] = "readme_content")]_vars

\* a complete run of a generator that wrote no tsconfig.json
C26_Witness ==
    /\ outcome = "done"
    /\ exit_code = 0
    /\ fs[TsconfigPath] = "absent"
    /\ tsconfig = NoConfig
    /\ fs[<<"README.md">>] = "readme_content"

Attempts(c) == Cardinality({i \in 1..Len(attempted) : attempted[i].cmd = c})

\* C27: backend/pyproject.toml and alembic/env.py are written after uv init,
\* respectively alembic init, has succeeded, and that command is not run again:
\* the generator's version never replaces the curated one.
C27_CuratedAfterGenerator ==
    /\ Attempts("uv init .") <= 1
    /\ Attempts("alembic init alembic") <= 1
    /\ WasEmitted(<<"backend", "pyproject.toml">>) =>
          /\ attempted[2] = [cmd |-> "uv init .", rc |-> 0]
          /\ fs[<<"backend", "pyproject.toml">>] = "pyproject_content"
    /\ WasEmitted(AlembicEnv) =>
          /\ attempted[Len(attempted)] = [cmd |-> "alembic init alembic", rc |-> 0]
             \/ (Len(attempted) > 9 /\ attempted[9] = [cmd |-> "alembic init alembic", rc |-> 0])
          /\ fs[AlembicEnv] = "alembic_env"

\* a later command has failed and both curated files are in place
C27_Witness ==
    /\ outcome = "command_failed"
    /\ Len(attempted) = 10
    /\ fs[<<"backend", "pyproject.toml">>] = "pyproject_content"
    /\ fs[AlembicEnv] = "alembic_env"

StepPaths(op) == {Pipeline[i].path : i \in {j \in 1..Len(Pipeline) : Pipeline[j].op = op}}

\* C28: the paths given to remove_file are disjoint from the paths given to
\* create_file, and project_path is removed recursively only before the first
\* file is emitted: a file the orchestrator has emitted is never deleted later.
C28_EmittedNeverDeleted ==
    /\ StepPaths("remove") = Placeholders
    /\ StepPaths("remove") \cap StepPaths("create") = {}
    /\ [](\A i \in 1..Len(emitted) : IsFile(fs, emitted[i]))
    /\ [][AtStep("remove") => ~WasEmitted(Pipeline[ip].path)]_vars
    /\ [][(fs[Root] # "absent" /\ fs'[Root] = "absent") =>
            (pc = "setup_check" /\ emitted = <<>> /\ emitted' = <<>>)]_vars

\* the old project was removed and every emitted file is still there at the end
C28_Witness ==
    /\ outcome = "done"
    /\ Asked /\ fs0 = OldTree(OldFiles)
    /\ Len(emitted) = 18
    /\ \A i \in 1..18 : IsFile(fs, emitted[i])

Invocations == Len(retry.history)

\* C29: a function wrapped by retry_db_operation(max_retries) is invoked at
\* most max_retries + 1 times per call; it is invoked again only after an
\* OperationalError or DisconnectionError whose message holds one of the
\* connection phrases; any other exception propagates at once, after a single
\* invocation when it is the first; when every attempt fails with a connection
\* error the last one is raised.
C29_RetryBound ==
    /\ Invocations <= retry.max_retries + 1
    /\ retry.pc = "loop" => Invocations = retry.attempt
    /\ \A i \in 1..(Invocations - 1) :
          /\ IsDbError(retry.history[i])
          /\ \E ph \in ConnectionPhrases : Contains(LowerWords(retry.history[i].msg), ph)
    /\ (retry.pc = "raised" /\ Invocations > 0) => retry.raised = retry.history[Invocations]
    /\ (Invocations > 0 /\ retry.history[1] \in Exceptions
          /\ ~(IsDbError(retry.history[1]) /\ IsConnectionError(retry.history[1]))) =>
            (Invocations = 1 /\ retry.pc = "raised" /\ retry.raised = retry.history[1])
    /\ (Invocations > 0 /\ retry.history[Invocations] # Returned) =>
          (retry.pc = "loop" <=> (IsDbError(retry.history[Invocations])
                                    /\ IsConnectionError(retry.history[Invocations])
                                    /\ Invocations <= retry.max_retries))
    /\ (Invocations > 0 /\ retry.history[Invocations] = Returned) => retry.pc = "returned"

\* every attempt failed with a connection error and the last one was raised
C29_Witness ==
    /\ retry.max_retries = MaxRetries
    /\ Invocations = MaxRetries + 1
    /\ \A i \in 1..Invocations : IsDbError(retry.history[i]) /\ IsConnectionError(retry.history[i])
    /\ retry.history[1] # retry.history[Invocations]
    /\ retry.pc = "raised"
    /\ retry.raised = retry.history[Invocations]

\* a database error that is not a connection error was raised on a later attempt
C29_WitnessOther ==
    /\ Invocations = 2
    /\ retry.pc = "raised"
    /\ retry.raised = [class |-> "OperationalError", msg |-> <<"syntax", "error">>]

\* C30: leaving a BaseSession block without an exception commits the session
\* exactly once, closes it and returns from __exit__ normally; leaving it with
\* an exception does not commit.
C30_ExitCommits ==
    session.pc = "exited" =>
        /\ session.exc = "None" =>
              (session.commits = 1 /\ session.closes >= 1 /\ session.exit_result = "returned")
        /\ session.exc # "None" => session.commits = 0

====
